---- MODULE Spec2Model ----
(***************************************************************************)
(* Model of src/server.js: the input classifier validateInput and the two  *)
(* Express routes GET / and POST /search that use it.                      *)
(*                                                                         *)
(* A JavaScript string is a sequence of one-character strings, so that     *)
(* trimming, regular-expression matching and template interpolation are    *)
(* computed character by character, as the engine computes them.           *)
(***************************************************************************)
EXTENDS Integers, Sequences, FiniteSets

\* ------------------------------------------------------------------------
\* Bounds of the exploration
\* ------------------------------------------------------------------------

\* A submitted string is the concatenation of at most MaxFrags fragments.
MaxFrags == 2

\* ------------------------------------------------------------------------
\* Characters
\* ------------------------------------------------------------------------

LowerLetters ==
    <<"a", "b", "c", "d", "e", "f", "g", "h", "i", "j", "k", "l", "m", "n", "o", "p", "q", "r", "s", "t", "u", "v", "w", "x", "y", "z">>

UpperLetters ==
    <<"A", "B", "C", "D", "E", "F", "G", "H", "I", "J", "K", "L", "M", "N", "O", "P", "Q", "R", "S", "T", "U", "V", "W", "X", "Y", "Z">>

Digits ==
    {"0", "1", "2", "3", "4", "5", "6", "7", "8", "9"}

Range(f) == {f[i] : i \in DOMAIN f}

\* \w of a regular expression: [A-Za-z0-9_]
WordChars == Range(LowerLetters) \cup Range(UpperLetters) \cup Digits \cup {"_"}

\* \s of a regular expression and the characters String.prototype.trim
\* strips (WhiteSpace and LineTerminator), restricted to ASCII.
WhiteSpace == {" ", "\t", "\n", "\r", "\f"}

\* Canonicalize of a regular expression with the i flag and without the u
\* flag: the character's toUpperCase.
UpperOf == [c \in Range(LowerLetters) |->
              UpperLetters[CHOOSE i \in 1..26 : LowerLetters[i] = c]]

\* Canonicalize that folds nothing: the patterns without their i flag
CanonicalizeNone(c, ignoreCase) == c

Canonicalize(c, ignoreCase) ==
    IF ignoreCase /\ c \in DOMAIN UpperOf THEN UpperOf[c] ELSE c

NL == <<"\n">>

Sp(n) == [i \in 1..n |-> " "]

\* ------------------------------------------------------------------------
\* JavaScript values that req.body.searchTerm can hold
\* ------------------------------------------------------------------------

Str(chars) == [kind |-> "string", chars |-> chars]

Undefined == [kind |-> "undefined", chars |-> <<>>]

Null == [kind |-> "null", chars |-> <<>>]

\* a number (42), an array (['a']) and a plain object ({a: 'b'}); chars is
\* what String(value) gives
NonStrings ==
    { [kind |-> "number", chars |-> <<"4", "2">>],
      [kind |-> "array",  chars |-> <<"a">>],
      [kind |-> "object", chars |-> <<"[", "o", "b", "j", "e", "c", "t", " ", "O", "b", "j", "e", "c", "t", "]">>] }

\* the typeof operator
TypeOf(v) ==
    CASE v.kind = "string"    -> "string"
      [] v.kind = "undefined" -> "undefined"
      [] v.kind = "number"    -> "number"
      [] OTHER                -> "object"

\* ------------------------------------------------------------------------
\* String operations
\* ------------------------------------------------------------------------

\* s.substring(from - 1, to) with 1-based inclusive bounds
Slice(s, from, to) == [i \in 1..(to - from + 1) |-> s[from + i - 1]]

\* Trim that strips the space character only
TrimSpacesOnly(s) ==
    LET keep == {i \in 1..Len(s) : s[i] # " "}
        Min(S) == CHOOSE x \in S : \A y \in S : x <= y
        Max(S) == CHOOSE x \in S : \A y \in S : x >= y
    IN  IF keep = {} THEN <<>> ELSE Slice(s, Min(keep), Max(keep))

\* String.prototype.trim
Trim(s) ==
    LET keep == {i \in 1..Len(s) : s[i] \notin WhiteSpace}
        Min(S) == CHOOSE x \in S : \A y \in S : x <= y
        Max(S) == CHOOSE x \in S : \A y \in S : x >= y
    IN  IF keep = {} THEN <<>> ELSE Slice(s, Min(keep), Max(keep))

\* input.trim() as the engine evaluates it: a TypeError unless the receiver
\* is a string (numbers, arrays and objects have no callable trim, and a
\* property read of null or undefined throws)
CallTrim(v) ==
    IF v.kind = "string"
    THEN [threw |-> FALSE, value |-> Trim(v.chars)]
    ELSE [threw |-> TRUE,  value |-> <<>>]

\* whether the characters of lit occur in s at position p
OccursAt(s, p, lit, ignoreCase) ==
    /\ p + Len(lit) - 1 <= Len(s)
    /\ \A k \in 1..Len(lit) :
         Canonicalize(s[p + k - 1], ignoreCase) = Canonicalize(lit[k], ignoreCase)

\* String.prototype.includes
Includes(s, lit) == \E p \in 1..(Len(s) + 1) : OccursAt(s, p, lit, FALSE)

\* ------------------------------------------------------------------------
\* Regular expressions
\* ------------------------------------------------------------------------
\* A pattern is a sequence of items; positions are 1..Len(s)+1, the index of
\* the next character to consume.  None of the patterns of validateInput
\* has a back-reference or a look-around, so the set of positions a
\* backtracking matcher can reach is the set the items reach one by one.

\* a literal run of characters
Lit(chars) == [k |-> "lit", chars |-> chars, set |-> {}, min |-> 0, alts |-> {}]

\* a character class, once
One(set) == [k |-> "one", chars |-> <<>>, set |-> set, min |-> 1, alts |-> {}]

\* a character class under * (min = 0) or + (min = 1)
Many(set, min) == [k |-> "many", chars |-> <<>>, set |-> set, min |-> min, alts |-> {}]

\* \b
WordBoundary == [k |-> "wb", chars |-> <<>>, set |-> {}, min |-> 0, alts |-> {}]

\* $ (no m flag: end of input only)
EndOfInput == [k |-> "end", chars |-> <<>>, set |-> {}, min |-> 0, alts |-> {}]

\* (a|b|c) over literal alternatives
Alt(alts) == [k |-> "alt", chars |-> <<>>, set |-> {}, min |-> 0, alts |-> alts]

IsWordCharAt(s, p) == p >= 1 /\ p <= Len(s) /\ s[p] \in WordChars

\* the positions reached from position p by one item
StepItem(item, s, p, ignoreCase) ==
    CASE item.k = "lit" ->
           IF OccursAt(s, p, item.chars, ignoreCase) THEN {p + Len(item.chars)} ELSE {}
      [] item.k = "one" ->
           IF p <= Len(s) /\ Canonicalize(s[p], ignoreCase) \in item.set THEN {p + 1} ELSE {}
      [] item.k = "many" ->
           {q \in (p + item.min)..(Len(s) + 1) :
              \A j \in p..(q - 1) : Canonicalize(s[j], ignoreCase) \in item.set}
      [] item.k = "wb" ->
           IF IsWordCharAt(s, p - 1) # IsWordCharAt(s, p) THEN {p} ELSE {}
      [] item.k = "end" ->
           IF p = Len(s) + 1 THEN {p} ELSE {}
      [] item.k = "alt" ->
           {p + Len(a) : a \in {b \in item.alts : OccursAt(s, p, b, ignoreCase)}}

RECURSIVE RunItems(_, _, _, _, _)
\* the positions reached from the set P by items[n..]
RunItems(items, n, s, P, ignoreCase) ==
    IF n > Len(items) \/ P = {} THEN P
    ELSE RunItems(items, n + 1, s,
                  UNION {StepItem(items[n], s, p, ignoreCase) : p \in P},
                  ignoreCase)

\* RegExp that drops the i flag of the literal
RegExpCaseSensitive(items, flags) ==
    [items |-> items, ignoreCase |-> FALSE, global |-> "g" \in flags]

\* a regular-expression literal with its flags
RegExp(items, flags) == [items |-> items, ignoreCase |-> "i" \in flags, global |-> "g" \in flags]

\* test() of a pattern with the y flag in place of g: a match is looked for
\* at the start of the input only
TestSticky(pattern, s) ==
    RunItems(pattern.items, 1, s, {1}, pattern.ignoreCase) # {}

\* RegExp.prototype.test on a freshly evaluated literal (lastIndex = 0):
\* is there a match starting at some position of s
Test(pattern, s) ==
    RunItems(pattern.items, 1, s, 1..(Len(s) + 1), pattern.ignoreCase) # {}

\* ------------------------------------------------------------------------
\* validateInput (server.js:17-73)
\* ------------------------------------------------------------------------

\* xssPatterns with the i flag missing from the first literal
xssPatternsCaseSensitive ==
    << RegExp(<<Lit(<<"<", "s", "c", "r", "i", "p", "t">>)>>, {"g"}),
       RegExp(<<Lit(<<"j", "a", "v", "a", "s", "c", "r", "i", "p", "t", ":">>)>>, {"g", "i"}),
       RegExp(<<Lit(<<"o", "n", "c", "l", "i", "c", "k", "=">>)>>, {"g", "i"}),
       RegExp(<<Lit(<<"o", "n", "l", "o", "a", "d", "=">>)>>, {"g", "i"}),
       RegExp(<<Lit(<<"o", "n", "e", "r", "r", "o", "r", "=">>)>>, {"g", "i"}),
       RegExp(<<Lit(<<"<", "i", "f", "r", "a", "m", "e">>)>>, {"g", "i"}),
       RegExp(<<Lit(<<"<", "o", "b", "j", "e", "c", "t">>)>>, {"g", "i"}),
       RegExp(<<Lit(<<"<", "e", "m", "b", "e", "d">>)>>, {"g", "i"}),
       RegExp(<<Lit(<<"a", "l", "e", "r", "t", "(">>)>>, {"g", "i"}),
       RegExp(<<Lit(<<"e", "v", "a", "l", "(">>)>>, {"g", "i"}),
       RegExp(<<Lit(<<"d", "o", "c", "u", "m", "e", "n", "t", ".">>)>>, {"g", "i"}),
       RegExp(<<Lit(<<"w", "i", "n", "d", "o", "w", ".">>)>>, {"g", "i"}) >>

\* server.js:32-45
xssPatterns ==
    << RegExp(<<Lit(<<"<", "s", "c", "r", "i", "p", "t">>)>>, {"g", "i"}),
       RegExp(<<Lit(<<"j", "a", "v", "a", "s", "c", "r", "i", "p", "t", ":">>)>>, {"g", "i"}),
       RegExp(<<Lit(<<"o", "n", "c", "l", "i", "c", "k", "=">>)>>, {"g", "i"}),
       RegExp(<<Lit(<<"o", "n", "l", "o", "a", "d", "=">>)>>, {"g", "i"}),
       RegExp(<<Lit(<<"o", "n", "e", "r", "r", "o", "r", "=">>)>>, {"g", "i"}),
       RegExp(<<Lit(<<"<", "i", "f", "r", "a", "m", "e">>)>>, {"g", "i"}),
       RegExp(<<Lit(<<"<", "o", "b", "j", "e", "c", "t">>)>>, {"g", "i"}),
       RegExp(<<Lit(<<"<", "e", "m", "b", "e", "d">>)>>, {"g", "i"}),
       RegExp(<<Lit(<<"a", "l", "e", "r", "t", "(">>)>>, {"g", "i"}),
       RegExp(<<Lit(<<"e", "v", "a", "l", "(">>)>>, {"g", "i"}),
       RegExp(<<Lit(<<"d", "o", "c", "u", "m", "e", "n", "t", ".">>)>>, {"g", "i"}),
       RegExp(<<Lit(<<"w", "i", "n", "d", "o", "w", ".">>)>>, {"g", "i"}) >>

\* sqlPatterns with the UNION SELECT entry missing
sqlPatternsNoUnion ==
    << RegExp(<<WordBoundary, Lit(<<"D", "R", "O", "P">>), Many(WhiteSpace, 1),
                Lit(<<"T", "A", "B", "L", "E">>), WordBoundary>>, {"g", "i"}),
       RegExp(<<Lit(<<"'">>), Many(WhiteSpace, 0), Lit(<<"O", "R">>), Many(WhiteSpace, 1),
                Lit(<<"'">>), Many(Digits, 1), Lit(<<"'">>), Many(WhiteSpace, 0),
                Lit(<<"=">>), Many(WhiteSpace, 0),
                Lit(<<"'">>), Many(Digits, 1), Lit(<<"'">>)>>, {"g", "i"}),
       RegExp(<<Lit(<<"'">>), Many(WhiteSpace, 0), Lit(<<"O", "R">>), Many(WhiteSpace, 1),
                Many(Digits, 1), Many(WhiteSpace, 0), Lit(<<"=">>),
                Many(WhiteSpace, 0), Many(Digits, 1)>>, {"g", "i"}),
       RegExp(<<Lit(<<"a", "d", "m", "i", "n", "'">>), Many(WhiteSpace, 0), Lit(<<"O", "R">>), Many(WhiteSpace, 0),
                Many(Digits, 1), Many(WhiteSpace, 0), Lit(<<"=">>),
                Many(WhiteSpace, 0), Many(Digits, 1)>>, {"g", "i"}),
       RegExp(<<Lit(<<"-", "-">>), Many(WhiteSpace, 0), EndOfInput>>, {"g", "i"}),
       RegExp(<<Lit(<<";">>), Many(WhiteSpace, 0),
                Alt({<<"D", "R", "O", "P">>, <<"D", "E", "L", "E", "T", "E">>, <<"U", "P", "D", "A", "T", "E">>, <<"I", "N", "S", "E", "R", "T">>}),
                WordBoundary>>, {"g", "i"}) >>

\* server.js:48-56
sqlPatterns ==
    << \* /\bUNION\s+SELECT\b/gi
       RegExp(<<WordBoundary, Lit(<<"U", "N", "I", "O", "N">>), Many(WhiteSpace, 1),
                Lit(<<"S", "E", "L", "E", "C", "T">>), WordBoundary>>, {"g", "i"}),
       \* /\bDROP\s+TABLE\b/gi
       RegExp(<<WordBoundary, Lit(<<"D", "R", "O", "P">>), Many(WhiteSpace, 1),
                Lit(<<"T", "A", "B", "L", "E">>), WordBoundary>>, {"g", "i"}),
       \* /'\s*OR\s+'\d+'\s*=\s*'\d+'/gi
       RegExp(<<Lit(<<"'">>), Many(WhiteSpace, 0), Lit(<<"O", "R">>), Many(WhiteSpace, 1),
                Lit(<<"'">>), Many(Digits, 1), Lit(<<"'">>), Many(WhiteSpace, 0),
                Lit(<<"=">>), Many(WhiteSpace, 0),
                Lit(<<"'">>), Many(Digits, 1), Lit(<<"'">>)>>, {"g", "i"}),
       \* /'\s*OR\s+\d+\s*=\s*\d+/gi
       RegExp(<<Lit(<<"'">>), Many(WhiteSpace, 0), Lit(<<"O", "R">>), Many(WhiteSpace, 1),
                Many(Digits, 1), Many(WhiteSpace, 0), Lit(<<"=">>),
                Many(WhiteSpace, 0), Many(Digits, 1)>>, {"g", "i"}),
       \* /admin'\s*OR\s*\d+\s*=\s*\d+/gi
       RegExp(<<Lit(<<"a", "d", "m", "i", "n", "'">>), Many(WhiteSpace, 0), Lit(<<"O", "R">>), Many(WhiteSpace, 0),
                Many(Digits, 1), Many(WhiteSpace, 0), Lit(<<"=">>),
                Many(WhiteSpace, 0), Many(Digits, 1)>>, {"g", "i"}),
       \* /--\s*$/gi
       RegExp(<<Lit(<<"-", "-">>), Many(WhiteSpace, 0), EndOfInput>>, {"g", "i"}),
       \* /;\s*(DROP|DELETE|UPDATE|INSERT)\b/gi
       RegExp(<<Lit(<<";">>), Many(WhiteSpace, 0),
                Alt({<<"D", "R", "O", "P">>, <<"D", "E", "L", "E", "T", "E">>, <<"U", "P", "D", "A", "T", "E">>, <<"I", "N", "S", "E", "R", "T">>}),
                WordBoundary>>, {"g", "i"}) >>

\* the for-of loops of server.js:59-63 and 66-70: does some pattern of the
\* list test true on the input
AnyTest(patterns, s) == \E n \in 1..Len(patterns) : Test(patterns[n], s)

\* the checks of validateInput in the order the code makes them
CheckOrder == <<"nullish", "typeof", "trim", "xss", "sql">>

\* a completed call: the returned object and the checks the call evaluated
Returned(isValid, attackType, evaluated) ==
    [threw |-> FALSE, isValid |-> isValid, attackType |-> attackType,
     evaluated |-> evaluated]

\* a call that ended in an exception
Thrown(evaluated) ==
    [threw |-> TRUE, isValid |-> FALSE, attackType |-> "none",
     evaluated |-> evaluated]

\* TestPatterns with the SQL loop placed before the XSS loop
TestPatternsSqlFirst(input) ==
    IF AnyTest(sqlPatterns, input.chars)
    THEN Returned(FALSE, "sql", <<"nullish", "typeof", "trim", "sql">>)
    ELSE IF AnyTest(xssPatterns, input.chars)
    THEN Returned(FALSE, "xss", <<"nullish", "typeof", "trim", "sql", "xss">>)
    ELSE Returned(TRUE, "null", <<"nullish", "typeof", "trim", "sql", "xss">>)

\* TestPatterns without the SQL loop
TestPatternsNoSql(input) ==
    IF AnyTest(xssPatterns, input.chars)
    THEN Returned(FALSE, "xss", <<"nullish", "typeof", "trim", "xss">>)
    ELSE Returned(TRUE, "null", <<"nullish", "typeof", "trim", "xss">>)

\* server.js:58-72: the XSS loop, then the SQL loop, then the accepting
\* return.  attackType "null" stands for the JavaScript null of line 72.
TestPatterns(input) ==
    IF AnyTest(xssPatterns, input.chars)
    THEN Returned(FALSE, "xss", <<"nullish", "typeof", "trim", "xss">>)
    ELSE IF AnyTest(sqlPatterns, input.chars)
    THEN Returned(FALSE, "sql", <<"nullish", "typeof", "trim", "xss", "sql">>)
    ELSE Returned(TRUE, "null", <<"nullish", "typeof", "trim", "xss", "sql">>)

\* validateInput without the typeof check of lines 23-25
validateInputNoTypeCheck(input) ==
    IF input.kind = "null" \/ input.kind = "undefined"
    THEN Returned(FALSE, "invalid", <<"nullish">>)
    ELSE LET trimmed == CallTrim(input) IN
         IF trimmed.threw
         THEN Thrown(<<"nullish", "trim">>)
         ELSE IF trimmed.value = <<>>
         THEN Returned(FALSE, "invalid", <<"nullish", "trim">>)
         ELSE TestPatterns(input)

\* validateInput whose blank branch returns isValid: true
validateInputBlankValid(input) ==
    IF input.kind = "null" \/ input.kind = "undefined"
    THEN Returned(FALSE, "invalid", <<"nullish">>)
    ELSE IF TypeOf(input) # "string"
    THEN Returned(FALSE, "invalid", <<"nullish", "typeof">>)
    ELSE LET trimmed == CallTrim(input) IN
         IF trimmed.threw
         THEN Thrown(<<"nullish", "typeof", "trim">>)
         ELSE IF trimmed.value = <<>>
         THEN Returned(TRUE, "invalid", <<"nullish", "typeof", "trim">>)
         ELSE TestPatterns(input)

\* validateInput without the blank check of lines 27-29
validateInputNoBlankCheck(input) ==
    IF input.kind = "null" \/ input.kind = "undefined"
    THEN Returned(FALSE, "invalid", <<"nullish">>)
    ELSE IF TypeOf(input) # "string"
    THEN Returned(FALSE, "invalid", <<"nullish", "typeof">>)
    ELSE TestPatterns(input)

\* server.js:17-73
validateInput(input) ==
    IF input.kind = "null" \/ input.kind = "undefined"
    THEN Returned(FALSE, "invalid", <<"nullish">>)
    ELSE IF TypeOf(input) # "string"
    THEN Returned(FALSE, "invalid", <<"nullish", "typeof">>)
    ELSE LET trimmed == CallTrim(input) IN
         IF trimmed.threw
         THEN Thrown(<<"nullish", "typeof", "trim">>)
         ELSE IF trimmed.value = <<>>
         THEN Returned(FALSE, "invalid", <<"nullish", "typeof", "trim">>)
         ELSE TestPatterns(input)

\* ------------------------------------------------------------------------
\* The pattern objects and their lastIndex
\* ------------------------------------------------------------------------
\* Every pattern has the g flag, so test() starts at the object's lastIndex
\* and leaves the end of the match (or 0 after a failure) in it.

MinOf(S) == CHOOSE x \in S : \A y \in S : x <= y

MaxOf(S) == CHOOSE x \in S : \A y \in S : x >= y

\* RegExp.prototype.test on an object whose lastIndex is given: whether it
\* matched and the lastIndex it leaves.  The match is the one at the
\* leftmost start; every quantifier of the patterns is greedy and none is
\* followed by an item matching what it repeats, so that match is the
\* longest from its start.  lastIndex counts from 0, positions from 1.
TestAt(pattern, s, lastIndex) ==
    LET from == IF pattern.global THEN lastIndex ELSE 0
        starts == IF from > Len(s) THEN {}
                  ELSE {p \in (from + 1)..(Len(s) + 1) :
                          RunItems(pattern.items, 1, s, {p}, pattern.ignoreCase) # {}}
    IN  IF starts = {}
        THEN [matched |-> FALSE,
              lastIndex |-> IF pattern.global THEN 0 ELSE lastIndex]
        ELSE [matched |-> TRUE,
              lastIndex |-> IF pattern.global
                            THEN MaxOf(RunItems(pattern.items, 1, s, {MinOf(starts)},
                                                pattern.ignoreCase)) - 1
                            ELSE lastIndex]

RECURSIVE LoopTest(_, _, _, _)
\* the for-of loops of server.js:59-63 and 66-70 from the n-th pattern on,
\* idx being the lastIndex of each object of the list: whether some test
\* was true and the lastIndex values the loop leaves
LoopTest(patterns, s, idx, n) ==
    IF n > Len(patterns) THEN [found |-> FALSE, idx |-> idx]
    ELSE LET t == TestAt(patterns[n], s, idx[n])
             left == [idx EXCEPT ![n] = t.lastIndex]
         IN  IF t.matched THEN [found |-> TRUE, idx |-> left]
             ELSE LoopTest(patterns, s, left, n + 1)

\* the objects two freshly evaluated arrays of literals hold: lastIndex 0
NewPatternObjects ==
    [xss |-> [n \in 1..Len(xssPatterns) |-> 0],
     sql |-> [n \in 1..Len(sqlPatterns) |-> 0]]

\* the arrays as module-level constants: the objects of the earlier call
PatternObjectsHoisted(heap) == heap

\* server.js:32-56: the literals are in the function body, so each call
\* evaluates them to new objects, whatever objects earlier calls left
PatternObjects(heap) == NewPatternObjects

\* server.js:58-72 on given pattern objects: the returned value and the
\* objects as the loops leave them
TestPatternsOn(input, objs) ==
    LET x == LoopTest(xssPatterns, input.chars, objs.xss, 1) IN
    IF x.found
    THEN [result |-> Returned(FALSE, "xss", <<"nullish", "typeof", "trim", "xss">>),
          objs |-> [objs EXCEPT !.xss = x.idx]]
    ELSE LET q == LoopTest(sqlPatterns, input.chars, objs.sql, 1) IN
         [result |-> IF q.found
                     THEN Returned(FALSE, "sql", <<"nullish", "typeof", "trim", "xss", "sql">>)
                     ELSE Returned(TRUE, "null", <<"nullish", "typeof", "trim", "xss", "sql">>),
          objs |-> [xss |-> x.idx, sql |-> q.idx]]

\* a call of validateInput when the pattern objects of earlier calls are
\* heap: lines 19-29 return before any literal is evaluated; otherwise the
\* loops run on the objects of lines 32-56
validateInputCall(input, heap) ==
    LET early == validateInput(input) IN
    IF \A i \in 1..Len(early.evaluated) : early.evaluated[i] \notin {"xss", "sql"}
    THEN [result |-> early, objs |-> heap]
    ELSE TestPatternsOn(input, PatternObjects(heap))

\* ------------------------------------------------------------------------
\* Pages (server.js:76-124)
\* ------------------------------------------------------------------------

\* server.js:77-87, the page sent by GET /
HomePage ==
    NL
    \o Sp(8) \o <<"<", "h", "t", "m", "l", ">">> \o NL
    \o Sp(8) \o <<"<", "b", "o", "d", "y", ">">> \o NL
    \o Sp(12) \o <<"<", "h", "1", ">", "S", "e", "a", "r", "c", "h", " ", "A", "p", "p", "l", "i", "c", "a", "t", "i", "o", "n", "<", "/", "h", "1", ">">> \o NL
    \o Sp(12) \o <<"<", "f", "o", "r", "m", " ", "a", "c", "t", "i", "o", "n", "=", "\"", "/", "s", "e", "a", "r", "c", "h", "\"", " ", "m", "e", "t", "h", "o", "d", "=", "\"", "P", "O", "S", "T", "\"", ">">> \o NL
    \o Sp(16) \o <<"<", "i", "n", "p", "u", "t", " ", "t", "y", "p", "e", "=", "\"", "t", "e", "x", "t", "\"", " ", "n", "a", "m", "e", "=", "\"", "s", "e", "a", "r", "c", "h", "T", "e", "r", "m", "\"", " ", "p", "l", "a", "c", "e", "h", "o", "l", "d", "e", "r", "=", "\"", "E", "n", "t", "e", "r", " ", "s", "e", "a", "r", "c", "h", " ", "t", "e", "r", "m", "\"", " ", "r", "e", "q", "u", "i", "r", "e", "d", ">">> \o NL
    \o Sp(16) \o <<"<", "b", "u", "t", "t", "o", "n", " ", "t", "y", "p", "e", "=", "\"", "s", "u", "b", "m", "i", "t", "\"", ">", "S", "e", "a", "r", "c", "h", "<", "/", "b", "u", "t", "t", "o", "n", ">">> \o NL
    \o Sp(12) \o <<"<", "/", "f", "o", "r", "m", ">">> \o NL
    \o Sp(8) \o <<"<", "/", "b", "o", "d", "y", ">">> \o NL
    \o Sp(8) \o <<"<", "/", "h", "t", "m", "l", ">">> \o NL
    \o Sp(4)

\* server.js:99-110, the page sent when validation fails
RejectionPage ==
    NL
    \o Sp(12) \o <<"<", "h", "t", "m", "l", ">">> \o NL
    \o Sp(12) \o <<"<", "b", "o", "d", "y", ">">> \o NL
    \o Sp(16) \o <<"<", "h", "1", ">", "S", "e", "a", "r", "c", "h", " ", "A", "p", "p", "l", "i", "c", "a", "t", "i", "o", "n", "<", "/", "h", "1", ">">> \o NL
    \o Sp(16) \o <<"<", "p", ">", "I", "n", "v", "a", "l", "i", "d", " ", "i", "n", "p", "u", "t", " ", "d", "e", "t", "e", "c", "t", "e", "d", ".", " ", "P", "l", "e", "a", "s", "e", " ", "t", "r", "y", " ", "a", "g", "a", "i", "n", ".", "<", "/", "p", ">">> \o NL
    \o Sp(16) \o <<"<", "f", "o", "r", "m", " ", "a", "c", "t", "i", "o", "n", "=", "\"", "/", "s", "e", "a", "r", "c", "h", "\"", " ", "m", "e", "t", "h", "o", "d", "=", "\"", "P", "O", "S", "T", "\"", ">">> \o NL
    \o Sp(20) \o <<"<", "i", "n", "p", "u", "t", " ", "t", "y", "p", "e", "=", "\"", "t", "e", "x", "t", "\"", " ", "n", "a", "m", "e", "=", "\"", "s", "e", "a", "r", "c", "h", "T", "e", "r", "m", "\"", " ", "p", "l", "a", "c", "e", "h", "o", "l", "d", "e", "r", "=", "\"", "E", "n", "t", "e", "r", " ", "s", "e", "a", "r", "c", "h", " ", "t", "e", "r", "m", "\"", " ", "r", "e", "q", "u", "i", "r", "e", "d", " ", "v", "a", "l", "u", "e", "=", "\"", "\"", ">">> \o NL
    \o Sp(20) \o <<"<", "b", "u", "t", "t", "o", "n", " ", "t", "y", "p", "e", "=", "\"", "s", "u", "b", "m", "i", "t", "\"", ">", "S", "e", "a", "r", "c", "h", "<", "/", "b", "u", "t", "t", "o", "n", ">">> \o NL
    \o Sp(16) \o <<"<", "/", "f", "o", "r", "m", ">">> \o NL
    \o Sp(12) \o <<"<", "/", "b", "o", "d", "y", ">">> \o NL
    \o Sp(12) \o <<"<", "/", "h", "t", "m", "l", ">">> \o NL
    \o Sp(8)

\* server.js:115-119, the results template up to ${searchTerm}
ResultsHead ==
    NL
    \o Sp(8) \o <<"<", "h", "t", "m", "l", ">">> \o NL
    \o Sp(8) \o <<"<", "b", "o", "d", "y", ">">> \o NL
    \o Sp(12) \o <<"<", "h", "1", ">", "S", "e", "a", "r", "c", "h", " ", "R", "e", "s", "u", "l", "t", "s", "<", "/", "h", "1", ">">> \o NL
    \o Sp(12) \o <<"<", "p", ">", "S", "e", "a", "r", "c", "h", " ", "T", "e", "r", "m", ":", " ">>

\* server.js:119-123, the results template after ${searchTerm}
ResultsTail ==
    <<"<", "/", "p", ">">> \o NL
    \o Sp(12) \o <<"<", "a", " ", "h", "r", "e", "f", "=", "\"", "/", "\"", ">", "R", "e", "t", "u", "r", "n", " ", "t", "o", " ", "H", "o", "m", "e", " ", "P", "a", "g", "e", "<", "/", "a", ">">> \o NL
    \o Sp(8) \o <<"<", "/", "b", "o", "d", "y", ">">> \o NL
    \o Sp(8) \o <<"<", "/", "h", "t", "m", "l", ">">> \o NL
    \o Sp(4)

\* ${searchTerm} in a template literal: TemplateString of the value
TemplateString(v) ==
    CASE v.kind = "undefined" -> <<"u", "n", "d", "e", "f", "i", "n", "e", "d">>
      [] v.kind = "null"      -> <<"n", "u", "l", "l">>
      [] OTHER                -> v.chars

\* server.js:115-123
ResultsPage(v) == ResultsHead \o TemplateString(v) \o ResultsTail

\* res.send(body): status 200 unless set otherwise
Send(body) == [status |-> 200, body |-> body]

\* nothing sent yet
NoResponse == [status |-> 0, body |-> <<>>]

\* Express's default error handler, which answers when a handler throws
ErrorResponse == [status |-> 500, body |-> <<>>]

\* ------------------------------------------------------------------------
\* Requests
\* ------------------------------------------------------------------------

\* The pieces submitted strings are built from: harmless text, white space,
\* markup, and the pieces of the XSS and SQL patterns in several letter
\* cases.
Fragments ==
    { <<"h", "e", "l", "l", "o", " ", "w", "o", "r", "l", "d">>, <<"t", "e", "s", "t", "1", "2", "3">>, <<"a">>, <<" ">>, <<"\t">>,
      <<"<">>, <<"s", "c", "r", "i", "p", "t">>, <<"<", "S", "c", "R", "i", "P", "t", ">">>, <<"<", "i", "f", "r", "a", "m", "e">>,
      <<"j", "a", "v", "a", "s", "c", "r", "i", "p", "t", ":">>, <<"o", "n", "e", "r", "r", "o", "r", "=">>, <<"a", "l", "e", "r", "t", "(">>, <<"d", "o", "c", "u", "m", "e", "n", "t", ".">>,
      <<"U", "N", "I", "O", "N">>, <<" ", "s", "e", "l", "e", "c", "t">>, <<"S", "E", "L", "E", "C", "T">>, <<"D", "R", "O", "P">>, <<" ", "T", "A", "B", "L", "E">>,
      <<"'">>, <<"'", " ", "O", "R", " ", "1", "=", "1">>, <<"'", " ", "o", "r", " ", "'", "1", "'", "=", "'", "1", "'">>, <<"'", "O", "R", "1", "=", "1">>, <<"a", "d", "m", "i", "n">>,
      <<"-", "-">>, <<";">> }

RECURSIVE Concat(_)
\* the concatenation of a sequence of fragments
Concat(fs) == IF fs = <<>> THEN <<>> ELSE Head(fs) \o Concat(Tail(fs))

\* the strings a request can carry
Strings == {Concat(fs) : fs \in UNION {[1..n -> Fragments] : n \in 0..MaxFrags}}

\* whole submitted strings that the tests and the specification name
Scenarios ==
    { <<"'", " ", "U", "N", "I", "O", "N", " ", "S", "E", "L", "E", "C", "T", " ", "*", " ", "F", "R", "O", "M", " ", "u", "s", "e", "r", "s", " ", "-", "-">>,
      <<"a", "d", "m", "i", "n", "'", " ", "O", "R", " ", "1", "=", "1", " ", "-", "-">>,
      <<"<", "i", "m", "g", " ", "s", "r", "c", "=", "x", " ", "o", "n", "e", "r", "r", "o", "r", "=", "a", "l", "e", "r", "t", "(", "1", ")", ">">>,
      <<"<", "I", "M", "G", " ", "S", "R", "C", "=", "x", " ", "O", "n", "E", "r", "r", "o", "r", "=", "g", "o", ">">>,
      <<"a", " ", "O", "N", "C", "L", "I", "C", "K", "=", "b">>,
      <<"a", " ", "o", "n", "L", "o", "a", "d", "=", "b">>,
      <<"S", "E", "L", "E", "C", "T", " ", "p", "a", "s", "s", "w", "o", "r", "d", " ", "F", "R", "O", "M", " ", "u", "s", "e", "r", "s">>,
      <<"<", "i", "m", "g", " ", "s", "r", "c", "=", "x", " ", "o", "n", "m", "o", "u", "s", "e", "o", "v", "e", "r", "=", "g", "o", ">">>, <<"<", "s", "t", "y", "l", "e", ">">>, <<"<", "L", "I", "N", "K", " ", "r", "e", "l", "=", "x", ">">>, <<"<", "m", "e", "t", "a", " ", "x", ">">>,
      <<"v", "b", "s", "c", "r", "i", "p", "t", ":", "x">>, <<"d", "a", "t", "a", ":", "t", "e", "x", "t", "/", "h", "t", "m", "l", ",", "x">>, <<"e", "x", "p", "r", "e", "s", "s", "i", "o", "n", "(", "x", ")">>, <<"c", "o", "n", "f", "i", "r", "m", "(", "1", ")">>,
      <<"p", "r", "o", "m", "p", "t", "(", "1", ")">>, <<"s", "e", "t", "T", "i", "m", "e", "o", "u", "t", "(", "x", ")">>, <<"s", "e", "t", "I", "n", "t", "e", "r", "v", "a", "l", "(", "x", ")">>,
      <<"i", "t", "'", "s">>, <<"a", "\\", "b">>, <<"a", ";", " ", "b">>, <<"a", " ", "-", "-", " ", "b">>, <<"/", "*", " ", "a", " ", "*", "/">>,
      <<"1", " ", "O", "R", " ", "1", "=", "1">>, <<"1", " ", "a", "n", "d", " ", "2", " ", "=", " ", "2">>, <<"x", " ", "O", "R", " ", "a", "=", "a">>, <<"x", " ", "o", "r", " ", "\"", "a", "\"", "=", "\"", "a", "\"">> }

\* the default of the maximum input length (part_003:104)
MaxLength == 1000

\* a harmless string one character longer than the maximum
LongInput == [i \in 1..(MaxLength + 1) |-> "a"]

\* the values req.body.searchTerm can have: absent, null, a non-string, or
\* a string
SearchTerms ==
    {Undefined, Null} \cup NonStrings \cup {Str(s) : s \in Strings \cup Scenarios \cup {LongInput}}

\* the strings of a sequence of validateInput calls: blank ones, harmless
\* ones, and ones that a pattern of either list matches at its start, in
\* its middle or at its end
CallStrings ==
    { <<>>, <<" ">>, <<"h", "e", "l", "l", "o", " ", "w", "o", "r", "l", "d">>, <<"<">>,
      <<"<", "S", "c", "R", "i", "P", "t", ">">>, <<"a", " ", "o", "n", "e", "r", "r", "o", "r", "=">>, <<"a", "l", "e", "r", "t", "(", "d", "o", "c", "u", "m", "e", "n", "t", ".", "c", "o", "o", "k", "i", "e", ")">>,
      <<"U", "N", "I", "O", "N", " ", "s", "e", "l", "e", "c", "t">>, <<"'", " ", "O", "R", " ", "1", "=", "1">>, <<"a", "-", "-">>, <<";", "D", "R", "O", "P">>,
      <<"'", " ", "U", "N", "I", "O", "N", " ", "S", "E", "L", "E", "C", "T", " ", "*", " ", "F", "R", "O", "M", " ", "u", "s", "e", "r", "s", " ", "-", "-">>, <<"a", "d", "m", "i", "n", "'", " ", "O", "R", " ", "1", "=", "1", " ", "-", "-">> }

\* the values of a sequence of validateInput calls
CallInputs ==
    {Undefined, Null} \cup NonStrings \cup {Str(s) : s \in CallStrings}

\* a run makes at most MaxCalls calls of validateInput in a row
MaxCalls == 3

\* a run handles at most MaxRequests whole requests in a row
MaxRequests == 3

\* ------------------------------------------------------------------------
\* The server: one request at a time runs its handler to completion
\* ------------------------------------------------------------------------

VARIABLES
    route,       \* the route of the request being handled: "none", "GET /", "POST /search"
    pc,          \* where the server is: "idle", "search", "validated", "done", "aborted"
    searchTerm,  \* req.body.searchTerm of the request being handled
    validation,  \* the value validateInput returned (server.js:95)
    response,    \* the last response sent for the request
    sent,        \* how many times res.send ran for the request
    lastIndex,   \* the lastIndex of the pattern objects the latest call left
    calls,       \* how many calls of validateInput were made in a row
    earlier,     \* the input and the result of the call before the latest
    requests,    \* how many requests were handled from start to end in a row
    previous     \* the request handled before the latest, and its response

vars == <<route, pc, searchTerm, validation, response, sent, lastIndex, calls, earlier,
          requests, previous>>

\* what a sequence of calls or of whole requests keeps track of
callState == <<lastIndex, calls, earlier, requests, previous>>

\* validation before line 95 has run
NoValidation == [threw |-> FALSE, isValid |-> FALSE, attackType |-> "none", evaluated |-> <<>>]

\* a request and the response it got, as they stand now
Exchange ==
    [route |-> route, searchTerm |-> searchTerm, validation |-> validation,
     response |-> response]

Init ==
    /\ route = "none"
    /\ pc = "idle"
    /\ searchTerm = Undefined
    /\ validation = NoValidation
    /\ response = NoResponse
    /\ sent = 0
    /\ lastIndex = NewPatternObjects
    /\ calls = 0
    /\ earlier = [input |-> Undefined, result |-> NoValidation]
    /\ requests = 0
    /\ previous = Exchange

\* server.js:76-88: GET / sends the home page
GetHome ==
    /\ pc = "idle"
    /\ route' = "GET /"
    /\ response' = Send(HomePage)
    /\ sent' = sent + 1
    /\ pc' = "done"
    /\ UNCHANGED <<searchTerm, validation>>
    /\ UNCHANGED callState

\* server.js:91-92: a POST /search arrives and its body is destructured.
\* req.body is the object the urlencoded middleware of line 9 leaves on the
\* request; its searchTerm property may be absent.
PostSearch ==
    /\ pc = "idle"
    /\ route' = "POST /search"
    /\ \E v \in SearchTerms : searchTerm' = v
    /\ pc' = "search"
    /\ UNCHANGED <<validation, response, sent>>
    /\ UNCHANGED callState

\* server.js:95: the call of validateInput; an exception leaves the handler
\* and Express answers with its error response
Validate ==
    /\ pc = "search"
    /\ validation' = validateInput(searchTerm)
    /\ IF validation'.threw
       THEN /\ pc' = "aborted"
            /\ response' = ErrorResponse
       ELSE /\ pc' = "validated"
            /\ UNCHANGED response
    /\ UNCHANGED <<route, searchTerm, sent>>
    /\ UNCHANGED callState

\* SendRejection without the return of line 111: the handler goes on to the
\* res.send of line 115
SendRejectionNoReturn ==
    /\ pc = "validated"
    /\ ~validation.isValid
    /\ response' = Send(RejectionPage)
    /\ sent' = sent + 2
    /\ pc' = "done"
    /\ UNCHANGED <<route, searchTerm, validation>>
    /\ UNCHANGED callState

\* SendRejection that sends the results template
SendRejectionEcho ==
    /\ pc = "validated"
    /\ ~validation.isValid
    /\ response' = Send(ResultsPage(searchTerm))
    /\ sent' = sent + 1
    /\ pc' = "done"
    /\ UNCHANGED <<route, searchTerm, validation>>
    /\ UNCHANGED callState

\* server.js:97-112: the rejection branch sends the form and returns
SendRejection ==
    /\ pc = "validated"
    /\ ~validation.isValid
    /\ response' = Send(RejectionPage)
    /\ sent' = sent + 1
    /\ pc' = "done"
    /\ UNCHANGED <<route, searchTerm, validation>>
    /\ UNCHANGED callState

\* SendResults without the return of line 111 in front of it: the results
\* branch is open to every verdict
SendResultsUnguarded ==
    /\ pc = "validated"
    /\ response' = Send(ResultsPage(searchTerm))
    /\ sent' = sent + 1
    /\ pc' = "done"
    /\ UNCHANGED <<route, searchTerm, validation>>
    /\ UNCHANGED callState

\* server.js:114-124: the results page with the term interpolated
SendResults ==
    /\ pc = "validated"
    /\ validation.isValid
    /\ response' = Send(ResultsPage(searchTerm))
    /\ sent' = sent + 1
    /\ pc' = "done"
    /\ UNCHANGED <<route, searchTerm, validation>>
    /\ UNCHANGED callState

\* the request is over; the server waits for the next one with nothing
\* kept from this one
Finish ==
    /\ pc \in {"done", "aborted"}
    /\ pc' = "idle"
    /\ route' = "none"
    /\ searchTerm' = Undefined
    /\ validation' = NoValidation
    /\ response' = NoResponse
    /\ sent' = 0
    /\ UNCHANGED callState

\* validateInput called directly, one call after another (as a unit test of
\* the function would): the call runs on the heap the earlier calls left
CallValidateInput ==
    /\ calls < MaxCalls
    /\ \E v \in CallInputs :
         LET call == validateInputCall(v, lastIndex) IN
         /\ searchTerm' = v
         /\ validation' = call.result
         /\ lastIndex' = call.objs
    /\ calls' = calls + 1
    /\ earlier' = [input |-> searchTerm, result |-> validation]
    /\ UNCHANGED <<route, pc, response, sent, requests, previous>>

\* HandleGet that shows the notice when the request before it was rejected
HandleGetWithNotice ==
    /\ requests < MaxRequests
    /\ route' = "GET /"
    /\ searchTerm' = Undefined
    /\ validation' = NoValidation
    /\ response' = IF route = "POST /search" /\ ~validation.isValid
                   THEN Send(RejectionPage)
                   ELSE Send(HomePage)
    /\ sent' = 1
    /\ pc' = "done"
    /\ requests' = requests + 1
    /\ previous' = Exchange
    /\ UNCHANGED <<lastIndex, calls, earlier>>

\* server.js:76-88 from the arrival of a GET / to the end of its handler.
\* The handler has no await and no callback, so Node runs it to its end
\* before it starts the handler of another request.
HandleGet ==
    /\ requests < MaxRequests
    /\ route' = "GET /"
    /\ searchTerm' = Undefined
    /\ validation' = NoValidation
    /\ response' = Send(HomePage)
    /\ sent' = 1
    /\ pc' = "done"
    /\ requests' = requests + 1
    /\ previous' = Exchange
    /\ UNCHANGED <<lastIndex, calls, earlier>>

\* SearchResponse that prints the reason under the form, as the rejection
\* page of the earlier server does
SearchResponseWithReason(v, result) ==
    IF result.threw THEN ErrorResponse
    ELSE IF ~result.isValid
         THEN Send(RejectionPage \o
                   (CASE result.attackType = "xss" -> <<"x", "s", "s">>
                      [] result.attackType = "sql" -> <<"s", "q", "l">>
                      [] OTHER -> <<"i", "n", "v", "a", "l", "i", "d">>))
    ELSE Send(ResultsPage(v))

\* server.js:97-124: the response the handler of POST /search sends for a
\* term, given what validateInput returned for it
SearchResponse(v, result) ==
    IF result.threw THEN ErrorResponse
    ELSE IF ~result.isValid THEN Send(RejectionPage)
    ELSE Send(ResultsPage(v))

\* server.js:91-124 from the arrival of a POST /search to the end of its
\* handler, run to its end as HandleGet is; the call of validateInput runs
\* on the heap the earlier requests left
HandlePost ==
    /\ requests < MaxRequests
    /\ \E v \in CallInputs : \E call \in {validateInputCall(v, lastIndex)} :
         /\ searchTerm' = v
         /\ validation' = call.result
         /\ lastIndex' = call.objs
         /\ response' = SearchResponse(v, call.result)
         /\ sent' = IF call.result.threw THEN 0 ELSE 1
         /\ pc' = IF call.result.threw THEN "aborted" ELSE "done"
    /\ route' = "POST /search"
    /\ requests' = requests + 1
    /\ previous' = Exchange
    /\ UNCHANGED <<calls, earlier>>

Next ==
    \/ GetHome
    \/ PostSearch
    \/ Validate
    \/ SendRejection
    \/ SendResults
    \/ Finish

Spec == Init /\ [][Next]_vars

NextCalls == CallValidateInput

\* sequences of direct calls of validateInput
SpecCalls == Init /\ [][NextCalls]_vars

NextRequests ==
    \/ HandleGet
    \/ HandlePost

\* sequences of requests, each handled from its arrival to its response
SpecRequests == Init /\ [][NextRequests]_vars

TypeOK ==
    /\ route \in {"none", "GET /", "POST /search"}
    /\ pc \in {"idle", "search", "validated", "done", "aborted"}
    /\ searchTerm \in SearchTerms \cup CallInputs
    /\ sent \in 0..2
    /\ calls \in 0..MaxCalls
    /\ requests \in 0..MaxRequests
    /\ previous.route \in {"none", "GET /", "POST /search"}


\* ------------------------------------------------------------------------
\* Vocabulary of the properties
\* ------------------------------------------------------------------------

\* validateInput has returned for the POST /search being handled
Validated == route = "POST /search" /\ pc \in {"validated", "done"}

\* the response to the POST /search being handled has been sent
Answered == route = "POST /search" /\ pc = "done"

Accepted == Validated /\ validation.isValid

Rejected == Validated /\ ~validation.isValid

IsString == searchTerm.kind = "string"

\* the string has a character that is not white space
NonBlank(s) == \E i \in 1..Len(s) : s[i] \notin WhiteSpace

\* how many times character c occurs in s
Occurrences(s, c) == Cardinality({i \in 1..Len(s) : s[i] = c})

\* HTML escaping as validator.escape does it (the escape the results page
\* of the earlier server applies): & " ' < > / \ become entities (so does
\* the backquote, which no string of this model contains)
EscapeChar(c) ==
    CASE c = "&"  -> <<"&", "a", "m", "p", ";">>
      [] c = "\"" -> <<"&", "q", "u", "o", "t", ";">>
      [] c = "'"  -> <<"&", "#", "x", "2", "7", ";">>
      [] c = "<"  -> <<"&", "l", "t", ";">>
      [] c = ">"  -> <<"&", "g", "t", ";">>
      [] c = "/"  -> <<"&", "#", "x", "2", "F", ";">>
      [] c = "\\" -> <<"&", "#", "x", "5", "C", ";">>
      [] OTHER    -> <<c>>

RECURSIVE HtmlEscape(_)
HtmlEscape(s) == IF s = <<>> THEN <<>> ELSE EscapeChar(Head(s)) \o HtmlEscape(Tail(s))

\* ------------------------------------------------------------------------
\* C1
\* ------------------------------------------------------------------------

\* C1: when an accepted input contains '<', the results page sent contains
\* the HTML-escaped input and no '<' other than those of the template.
C1_EscapedResults ==
    (Answered /\ validation.isValid /\ IsString /\ Includes(searchTerm.chars, <<"<">>))
    => /\ Includes(response.body, HtmlEscape(searchTerm.chars))
       /\ Occurrences(response.body, "<") = Occurrences(ResultsHead \o ResultsTail, "<")

\* ------------------------------------------------------------------------
\* C2
\* ------------------------------------------------------------------------

\* the opening tag of the search form (test.js:50)
FormTag ==
    <<"<", "f", "o", "r", "m", " ", "a", "c", "t", "i", "o", "n", "=", "\"", "/", "s", "e", "a", "r", "c", "h", "\"", " ", "m", "e", "t", "h", "o", "d", "=", "\"", "P", "O", "S", "T", "\"", ">">>

\* the cleared value attribute of the field (test.js:51)
EmptyValue ==
    <<"n", "a", "m", "e", "=", "\"", "s", "e", "a", "r", "c", "h", "T", "e", "r", "m", "\"", " ", "p", "l", "a", "c", "e", "h", "o", "l", "d", "e", "r", "=", "\"", "E", "n", "t", "e", "r", " ", "s", "e", "a", "r", "c", "h", " ", "t", "e", "r", "m", "\"", " ", "r", "e", "q", "u", "i", "r", "e", "d", " ", "v", "a", "l", "u", "e", "=", "\"", "\"", ">">>

IsClearedForm(body) == Includes(body, FormTag) /\ Includes(body, EmptyValue)

\* C2 as stated: the answer to a rejected input is the form with value=""
\* and never contains the rejected input.
C2_NeverContainsInput ==
    (Answered /\ ~validation.isValid)
    => /\ IsClearedForm(response.body)
       /\ IsString => ~Includes(response.body, searchTerm.chars)

\* C2 amended: the answer to a rejected input is the form with value="",
\* and it does not contain the rejected input when that input is a string
\* with at least one character that is not white space.
C2_ClearedForm ==
    (Answered /\ ~validation.isValid)
    => /\ IsClearedForm(response.body)
       /\ (IsString /\ NonBlank(searchTerm.chars))
            => ~Includes(response.body, searchTerm.chars)

\* a rejected attack string has been answered
C2_Witness ==
    /\ Answered
    /\ validation.attackType \in {"xss", "sql"}
    /\ response.status = 200

\* ------------------------------------------------------------------------
\* C3
\* ------------------------------------------------------------------------

\* C3: validateInput returns, for every value, an object with a boolean
\* verdict and a reason, and no request's handler is aborted.
C3_Total ==
    /\ pc # "aborted"
    /\ Validated
         => /\ ~validation.threw
            /\ validation.isValid \in BOOLEAN
            /\ validation.attackType \in {"invalid", "xss", "sql", "null"}

\* a value that is neither a string nor null nor undefined was classified
C3_Witness ==
    /\ Validated
    /\ searchTerm.kind \in {"number", "array", "object"}
    /\ ~validation.threw

\* ------------------------------------------------------------------------
\* C4
\* ------------------------------------------------------------------------

\* C4: a returned result is valid exactly when its reason is null.
C4_ValidIffNoReason ==
    Validated => (validation.isValid <=> validation.attackType = "null")

\* a blank string was rejected with a reason
C4_Witness ==
    /\ Validated
    /\ IsString
    /\ ~NonBlank(searchTerm.chars)
    /\ validation.attackType # "null"

\* ------------------------------------------------------------------------
\* C5
\* ------------------------------------------------------------------------

IsPrefix(a, b) == Len(a) <= Len(b) /\ \A i \in 1..Len(a) : a[i] = b[i]

\* the reason a call reports when the last check it evaluated is c and that
\* check failed
ReasonOf(c) == IF c = "xss" THEN "xss" ELSE IF c = "sql" THEN "sql" ELSE "invalid"

\* C5: the checks run in the order type, blank, XSS, SQL; a rejection
\* reports the check it stopped at; a non-blank string that matches both an
\* XSS and an SQL pattern is rejected as XSS.
C5_Precedence ==
    Validated
    => /\ IsPrefix(validation.evaluated, CheckOrder)
       /\ ~validation.isValid
            => validation.attackType
                 = ReasonOf(validation.evaluated[Len(validation.evaluated)])
       /\ ( /\ IsString
            /\ NonBlank(searchTerm.chars)
            /\ AnyTest(xssPatterns, searchTerm.chars)
            /\ AnyTest(sqlPatterns, searchTerm.chars) )
            => validation.attackType = "xss"

\* a string matching a pattern of each list was classified
C5_Witness ==
    /\ Validated
    /\ IsString
    /\ AnyTest(xssPatterns, searchTerm.chars)
    /\ AnyTest(sqlPatterns, searchTerm.chars)
    /\ validation.attackType = "xss"

\* ------------------------------------------------------------------------
\* C6
\* ------------------------------------------------------------------------

\* s has, at position p, the letters of word in either case (word is given
\* in lower case, upper in upper case)
LettersAt(s, p, lower, upper) ==
    /\ p >= 1
    /\ p + Len(lower) - 1 <= Len(s)
    /\ \A k \in 1..Len(lower) : s[p + k - 1] \in {lower[k], upper[k]}

\* s contains '<script' in some letter case
HasScriptTag(s) ==
    \E p \in 1..Len(s) :
        /\ s[p] = "<"
        /\ LettersAt(s, p + 1, <<"s", "c", "r", "i", "p", "t">>, <<"S", "C", "R", "I", "P", "T">>)

\* C6: a string that contains '<script' in any letter case is rejected with
\* reason XSS, closing tag or not.
C6_ScriptTagRejected ==
    (Validated /\ IsString /\ HasScriptTag(searchTerm.chars))
    => /\ ~validation.isValid
       /\ validation.attackType = "xss"

\* a mixed-case '<ScRiPt' without a closing tag was rejected
C6_Witness ==
    /\ Validated
    /\ IsString
    /\ HasScriptTag(searchTerm.chars)
    /\ ~Includes(searchTerm.chars, <<"<", "s", "c", "r", "i", "p", "t">>)
    /\ ~Includes(searchTerm.chars, <<"<", "/">>)
    /\ validation.attackType = "xss"

\* ------------------------------------------------------------------------
\* C7
\* ------------------------------------------------------------------------

IsWord(s, p) == p >= 1 /\ p <= Len(s) /\ s[p] \in WordChars

\* s matches /\bUNION\s+SELECT\b/i: the word UNION from position p, one or
\* more white-space characters, and the word SELECT from position q
HasUnionSelect(s) ==
    \E p \in 1..Len(s) : \E q \in (p + 6)..Len(s) :
        /\ ~IsWord(s, p - 1)
        /\ LettersAt(s, p, <<"u", "n", "i", "o", "n">>, <<"U", "N", "I", "O", "N">>)
        /\ \A j \in (p + 5)..(q - 1) : s[j] \in WhiteSpace
        /\ LettersAt(s, q, <<"s", "e", "l", "e", "c", "t">>, <<"S", "E", "L", "E", "C", "T">>)
        /\ ~IsWord(s, q + 6)

\* C7: a string in which the word UNION is followed by white space and the
\* word SELECT is rejected, whatever else it contains.
C7_UnionSelectRejected ==
    (Validated /\ IsString /\ HasUnionSelect(searchTerm.chars))
    => ~validation.isValid

\* a UNION SELECT string that no other pattern matches was rejected
C7_Witness ==
    /\ Validated
    /\ IsString
    /\ HasUnionSelect(searchTerm.chars)
    /\ ~AnyTest(xssPatterns, searchTerm.chars)
    /\ ~AnyTest(sqlPatternsNoUnion, searchTerm.chars)
    /\ validation.attackType = "sql"

\* ------------------------------------------------------------------------
\* C8
\* ------------------------------------------------------------------------

EmptyString == Str(<<>>)

C9_BlankRejected ==
    (Validated /\ IsString /\ ~NonBlank(searchTerm.chars))
    => /\ ~validation.isValid
       /\ validation.attackType = "invalid"
       /\ validation.evaluated = <<"nullish", "typeof", "trim">>
       /\ pc = "done" => /\ response.body = RejectionPage
                         /\ response.body # ResultsPage(searchTerm)

\* a string of white space other than the empty string was answered
C9_Witness ==
    /\ Answered
    /\ IsString
    /\ searchTerm.chars # <<>>
    /\ ~NonBlank(searchTerm.chars)
    /\ Includes(searchTerm.chars, <<"\t">>)

\* ------------------------------------------------------------------------
\* C10
\* ------------------------------------------------------------------------

HelloWorld == Str(<<"h", "e", "l", "l", "o", " ", "w", "o", "r", "l", "d">>)

Test123 == Str(<<"t", "e", "s", "t", "1", "2", "3">>)

\* letters, digits and spaces only
IsPlainText(s) ==
    \A i \in 1..Len(s) :
        s[i] \in Range(LowerLetters) \cup Range(UpperLetters) \cup Digits \cup {" "}

\* the two patterns a string of letters, digits and spaces can match:
\* /\bUNION\s+SELECT\b/i and /\bDROP\s+TABLE\b/i
HasDropTable(s) ==
    \E p \in 1..Len(s) : \E q \in (p + 5)..Len(s) :
        /\ ~IsWord(s, p - 1)
        /\ LettersAt(s, p, <<"d", "r", "o", "p">>, <<"D", "R", "O", "P">>)
        /\ \A j \in (p + 4)..(q - 1) : s[j] \in WhiteSpace
        /\ LettersAt(s, q, <<"t", "a", "b", "l", "e">>, <<"T", "A", "B", "L", "E">>)
        /\ ~IsWord(s, q + 5)

\* the line of the results page that shows the term (test.js:27)
SearchTermLine(s) ==
    <<"S", "e", "a", "r", "c", "h", " ", "T", "e", "r", "m", ":", " ">> \o s

C11_Idempotent ==
    /\ calls >= 1 => validation = validateInput(searchTerm)
    /\ (calls >= 2 /\ earlier.input = searchTerm) => earlier.result = validation

\* the same string was rejected twice in a row by an XSS pattern, the
\* second time after the first call had left a lastIndex other than 0
C11_Witness ==
    /\ calls >= 2
    /\ earlier.input = searchTerm
    /\ earlier.result.attackType = "xss"
    /\ validation.attackType = "xss"
    /\ \E n \in DOMAIN lastIndex.xss : lastIndex.xss[n] > 0

\* ------------------------------------------------------------------------
\* C12
\* ------------------------------------------------------------------------

\* test.js:89
UnionSelectAttack == Str(<<"'", " ", "U", "N", "I", "O", "N", " ", "S", "E", "L", "E", "C", "T", " ", "*", " ", "F", "R", "O", "M", " ", "u", "s", "e", "r", "s", " ", "-", "-">>)

\* test.js:100
AdminOrAttack == Str(<<"a", "d", "m", "i", "n", "'", " ", "O", "R", " ", "1", "=", "1", " ", "-", "-">>)

\* C12: "' UNION SELECT * FROM users --" and "admin' OR 1=1 --" are each
\* rejected with reason SQL; neither matches an XSS pattern and each
\* matches an SQL pattern.
C12_SqlScenarios ==
    (Validated /\ searchTerm \in {UnionSelectAttack, AdminOrAttack})
    => /\ ~validation.isValid
       /\ validation.attackType = "sql"
       /\ ~AnyTest(xssPatterns, searchTerm.chars)
       /\ AnyTest(sqlPatterns, searchTerm.chars)
       /\ pc = "done" => response = Send(RejectionPage)

\* "admin' OR 1=1 --" was answered with the form
C12_Witness ==
    /\ Answered
    /\ searchTerm = AdminOrAttack
    /\ validation.attackType = "sql"
    /\ response.body = RejectionPage

\* ------------------------------------------------------------------------
\* C13
\* ------------------------------------------------------------------------

\* test.js:67 with the payload of the scenario
ImgOnerrorAttack == Str(<<"<", "i", "m", "g", " ", "s", "r", "c", "=", "x", " ", "o", "n", "e", "r", "r", "o", "r", "=", "a", "l", "e", "r", "t", "(", "1", ")", ">">>)

\* s contains the attribute name (given in lower and in upper case) in some
\* letter case, followed by '='
HasAttribute(s, lower, upper) ==
    \E p \in 1..Len(s) :
        /\ LettersAt(s, p, lower, upper)
        /\ p + Len(lower) <= Len(s)
        /\ s[p + Len(lower)] = "="

\* s contains onerror=, onclick= or onload= in some letter case
HasListedHandler(s) ==
    \/ HasAttribute(s, <<"o", "n", "e", "r", "r", "o", "r">>, <<"O", "N", "E", "R", "R", "O", "R">>)
    \/ HasAttribute(s, <<"o", "n", "c", "l", "i", "c", "k">>, <<"O", "N", "C", "L", "I", "C", "K">>)
    \/ HasAttribute(s, <<"o", "n", "l", "o", "a", "d">>, <<"O", "N", "L", "O", "A", "D">>)

SelectStatement == Str(<<"S", "E", "L", "E", "C", "T", " ", "p", "a", "s", "s", "w", "o", "r", "d", " ", "F", "R", "O", "M", " ", "u", "s", "e", "r", "s">>)

\* s contains the word (given in lower and in upper case) in some letter
\* case, with no word character before or after it
HasWord(s, lower, upper) ==
    \E p \in 1..Len(s) :
        /\ ~IsWord(s, p - 1)
        /\ LettersAt(s, p, lower, upper)
        /\ ~IsWord(s, p + Len(lower))

\* s contains one of the SQL keywords of the specification as a whole word
HasSqlKeyword(s) ==
    \/ HasWord(s, <<"s", "e", "l", "e", "c", "t">>, <<"S", "E", "L", "E", "C", "T">>)
    \/ HasWord(s, <<"i", "n", "s", "e", "r", "t">>, <<"I", "N", "S", "E", "R", "T">>)
    \/ HasWord(s, <<"u", "p", "d", "a", "t", "e">>, <<"U", "P", "D", "A", "T", "E">>)
    \/ HasWord(s, <<"d", "e", "l", "e", "t", "e">>, <<"D", "E", "L", "E", "T", "E">>)
    \/ HasWord(s, <<"d", "r", "o", "p">>, <<"D", "R", "O", "P">>)
    \/ HasWord(s, <<"c", "r", "e", "a", "t", "e">>, <<"C", "R", "E", "A", "T", "E">>)
    \/ HasWord(s, <<"a", "l", "t", "e", "r">>, <<"A", "L", "T", "E", "R">>)
    \/ HasWord(s, <<"e", "x", "e", "c">>, <<"E", "X", "E", "C">>)
    \/ HasWord(s, <<"e", "x", "e", "c", "u", "t", "e">>, <<"E", "X", "E", "C", "U", "T", "E">>)
    \/ HasWord(s, <<"d", "e", "c", "l", "a", "r", "e">>, <<"D", "E", "C", "L", "A", "R", "E">>)
    \/ HasWord(s, <<"x", "p", "_", "c", "m", "d", "s", "h", "e", "l", "l">>, <<"X", "P", "_", "C", "M", "D", "S", "H", "E", "L", "L">>)
    \/ HasWord(s, <<"s", "p", "_", "e", "x", "e", "c", "u", "t", "e", "s", "q", "l">>, <<"S", "P", "_", "E", "X", "E", "C", "U", "T", "E", "S", "Q", "L">>)

\* C14: a non-blank string that contains an SQL keyword as a whole word is
\* rejected, and "SELECT password FROM users" is answered with the
\* 'Invalid input detected' form.
C14_KeywordRejected ==
    /\ (Validated /\ IsString /\ NonBlank(searchTerm.chars)
          /\ HasSqlKeyword(searchTerm.chars))
         => ~validation.isValid
    /\ (Answered /\ searchTerm = SelectStatement)
         => response = Send(RejectionPage)

\* ------------------------------------------------------------------------
\* C15
\* ------------------------------------------------------------------------

\* the members of the XSS pattern set that the claim names, as the earlier
\* server writes them (part_003:44-62)
listedXssPatterns ==
    << \* /on\w+\s*=/gi
       RegExp(<<Lit(<<"o", "n">>), Many(WordChars, 1), Many(WhiteSpace, 0), Lit(<<"=">>)>>,
              {"g", "i"}),
       RegExp(<<Lit(<<"<", "l", "i", "n", "k">>)>>, {"g", "i"}),
       RegExp(<<Lit(<<"<", "m", "e", "t", "a">>)>>, {"g", "i"}),
       RegExp(<<Lit(<<"<", "s", "t", "y", "l", "e">>)>>, {"g", "i"}),
       RegExp(<<Lit(<<"v", "b", "s", "c", "r", "i", "p", "t", ":">>)>>, {"g", "i"}),
       RegExp(<<Lit(<<"d", "a", "t", "a", ":", "t", "e", "x", "t", "/", "h", "t", "m", "l">>)>>, {"g", "i"}),
       \* /expression\s*\(/gi
       RegExp(<<Lit(<<"e", "x", "p", "r", "e", "s", "s", "i", "o", "n">>), Many(WhiteSpace, 0), Lit(<<"(">>)>>, {"g", "i"}),
       RegExp(<<Lit(<<"c", "o", "n", "f", "i", "r", "m">>), Many(WhiteSpace, 0), Lit(<<"(">>)>>, {"g", "i"}),
       RegExp(<<Lit(<<"p", "r", "o", "m", "p", "t">>), Many(WhiteSpace, 0), Lit(<<"(">>)>>, {"g", "i"}),
       RegExp(<<Lit(<<"s", "e", "t", "T", "i", "m", "e", "o", "u", "t">>), Many(WhiteSpace, 0), Lit(<<"(">>)>>, {"g", "i"}),
       RegExp(<<Lit(<<"s", "e", "t", "I", "n", "t", "e", "r", "v", "a", "l">>), Many(WhiteSpace, 0), Lit(<<"(">>)>>, {"g", "i"}) >>

\* C15: a non-blank string that matches a member of the XSS pattern set of
\* the specification (any on<name>= handler, <link, <meta, <style,
\* vbscript:, data:text/html, expression(, confirm(, prompt(, setTimeout(,
\* setInterval() is rejected with reason XSS.
C15_ListedXssRejected ==
    (Validated /\ IsString /\ NonBlank(searchTerm.chars)
       /\ AnyTest(listedXssPatterns, searchTerm.chars))
    => (~validation.isValid /\ validation.attackType = "xss")

\* ------------------------------------------------------------------------
\* C16
\* ------------------------------------------------------------------------

\* s contains one of the SQL metacharacters ' \ ; -- /* */
HasSqlMetacharacter(s) ==
    \/ Includes(s, <<"'">>)
    \/ Includes(s, <<"\\">>)
    \/ Includes(s, <<";">>)
    \/ Includes(s, <<"-", "-">>)
    \/ Includes(s, <<"/", "*">>)
    \/ Includes(s, <<"*", "/">>)

\* C16: a non-blank string that matches no XSS pattern and contains an SQL
\* metacharacter anywhere is rejected with reason SQL.
C16_MetacharacterRejected ==
    (Validated /\ IsString /\ NonBlank(searchTerm.chars)
       /\ ~AnyTest(xssPatterns, searchTerm.chars)
       /\ HasSqlMetacharacter(searchTerm.chars))
    => (~validation.isValid /\ validation.attackType = "sql")

\* ------------------------------------------------------------------------
\* C17
\* ------------------------------------------------------------------------

Quotes == {"'", "\""}

Letters == Range(LowerLetters) \cup Range(UpperLetters)

\* the boolean-tautology idioms as the earlier server writes them
\* (part_003:69-70), without their optional tail \s*(--)?
tautologyPatterns ==
    << \* /(OR|AND)\s+['"]*\d+['"]*\s*=\s*['"]*\d+['"]*/gi
       RegExp(<<Alt({<<"O", "R">>, <<"A", "N", "D">>}), Many(WhiteSpace, 1),
                Many(Quotes, 0), Many(Digits, 1), Many(Quotes, 0),
                Many(WhiteSpace, 0), Lit(<<"=">>), Many(WhiteSpace, 0),
                Many(Quotes, 0), Many(Digits, 1), Many(Quotes, 0)>>, {"g", "i"}),
       \* /\s+(OR|AND)\s+['"]*[a-zA-Z]+['"]*\s*=\s*['"]*[a-zA-Z]+['"]*/gi
       RegExp(<<Many(WhiteSpace, 1), Alt({<<"O", "R">>, <<"A", "N", "D">>}), Many(WhiteSpace, 1),
                Many(Quotes, 0), Many(Letters, 1), Many(Quotes, 0),
                Many(WhiteSpace, 0), Lit(<<"=">>), Many(WhiteSpace, 0),
                Many(Quotes, 0), Many(Letters, 1), Many(Quotes, 0)>>, {"g", "i"}) >>

\* C17: a non-blank string that matches no XSS pattern and contains a
\* boolean tautology after OR or AND, with or without a quote before the
\* OR or AND, is rejected with reason SQL.
C17_TautologyRejected ==
    (Validated /\ IsString /\ NonBlank(searchTerm.chars)
       /\ ~AnyTest(xssPatterns, searchTerm.chars)
       /\ AnyTest(tautologyPatterns, searchTerm.chars))
    => (~validation.isValid /\ validation.attackType = "sql")

\* ------------------------------------------------------------------------
\* C18
\* ------------------------------------------------------------------------

\* the character class of the allow-list, /^[a-zA-Z0-9\s\.,!?'"()-]+$/
\* (part_003:114)
AllowedChars ==
    Letters \cup Digits \cup WhiteSpace \cup {".", ",", "!", "?", "'", "\"", "(", ")", "-"}

\* C18: an accepted input has allow-listed characters only; in particular
\* none of < > ; = and backslash.
C18_AllowListed ==
    (Validated /\ validation.isValid)
    => /\ IsString
       /\ \A i \in 1..Len(searchTerm.chars) : searchTerm.chars[i] \in AllowedChars
       /\ \A i \in 1..Len(searchTerm.chars) :
            searchTerm.chars[i] \notin {"<", ">", ";", "=", "\\"}

\* ------------------------------------------------------------------------
\* C19
\* ------------------------------------------------------------------------

\* C19: a string of more than MaxLength characters is never accepted.
C19_TooLongRejected ==
    (Validated /\ IsString /\ Len(searchTerm.chars) > MaxLength)
    => /\ ~validation.threw
       /\ ~validation.isValid

\* ------------------------------------------------------------------------
\* C20
\* ------------------------------------------------------------------------

\* the heading of the results page (server.js:118)
ResultsHeading == <<"<", "h", "1", ">", "S", "e", "a", "r", "c", "h", " ", "R", "e", "s", "u", "l", "t", "s", "<", "/", "h", "1", ">">>

\* the link of the results page (server.js:120)
HomeLink == <<"<", "a", " ", "h", "r", "e", "f", "=", "\"", "/", "\"", ">", "R", "e", "t", "u", "r", "n", " ", "t", "o", " ", "H", "o", "m", "e", " ", "P", "a", "g", "e", "<", "/", "a", ">">>

\* the notice of the rejection page (server.js:103)
InvalidNotice == <<"I", "n", "v", "a", "l", "i", "d", " ", "i", "n", "p", "u", "t", " ", "d", "e", "t", "e", "c", "t", "e", "d">>

\* C20: the answer to POST /search is chosen by the verdict alone. It is
\* the results page, with the heading, the term after 'Search Term: ' and
\* the link home, exactly when the verdict is SAFE; otherwise it is the one
\* form page with the notice, whatever was submitted, and has no
\* 'Search Results' in it. Either answer has status 200 and is the only one.
C20_ResponseByVerdict ==
    Answered
    => /\ response.status = 200
       /\ sent = 1
       /\ validation.isValid <=> response = Send(ResultsPage(searchTerm))
       /\ validation.isValid <=> Includes(response.body, ResultsHeading)
       /\ validation.isValid
            => /\ Includes(response.body, SearchTermLine(TemplateString(searchTerm)))
               /\ Includes(response.body, HomeLink)
       /\ ~validation.isValid
            => /\ response = Send(RejectionPage)
               /\ Includes(response.body, InvalidNotice)
               /\ Includes(response.body, FormTag)
               /\ ~Includes(response.body, <<"S", "e", "a", "r", "c", "h", " ", "R", "e", "s", "u", "l", "t", "s">>)

\* the img/onerror attack was answered with the form page
C20_Witness ==
    /\ Answered
    /\ searchTerm = ImgOnerrorAttack
    /\ ~validation.isValid
    /\ response.status = 200
    /\ Includes(response.body, InvalidNotice)
    /\ ~Includes(response.body, ResultsHeading)

\* ------------------------------------------------------------------------
\* C21
\* ------------------------------------------------------------------------

\* the exchange x is a POST /search whose term validateInput rejected
RejectedExchange(x) ==
    /\ x.route = "POST /search"
    /\ ~x.validation.threw
    /\ ~x.validation.isValid

\* the values of attackType in a rejection (server.js:20, 24, 28, 61, 68)
ReasonCodes == {<<"i", "n", "v", "a", "l", "i", "d">>, <<"x", "s", "s">>, <<"s", "q", "l">>}

\* C21: two rejected requests in a row get the same page, whatever was
\* submitted and whatever the reasons were; the page has the notice and no
\* reason code in it.
C21_UniformRejection ==
    /\ (RejectedExchange(Exchange) /\ RejectedExchange(previous))
         => response = previous.response
    /\ RejectedExchange(Exchange)
         => /\ response.status = 200
            /\ Includes(response.body, InvalidNotice)
            /\ \A code \in ReasonCodes : ~Includes(response.body, code)

\* an XSS rejection was followed by the rejection of another input for
\* another reason
C21_Witness ==
    /\ RejectedExchange(previous)
    /\ RejectedExchange(Exchange)
    /\ previous.validation.attackType = "xss"
    /\ validation.attackType \in {"sql", "invalid"}
    /\ previous.searchTerm # searchTerm
    /\ response.body # <<>>

\* ------------------------------------------------------------------------
\* C22
\* ------------------------------------------------------------------------

\* the response to a request that is the only one the server ever handles:
\* the handlers of server.js:76-124 run on the state the start of the
\* server leaves
Alone(r, v) ==
    IF r = "GET /"
    THEN Send(HomePage)
    ELSE SearchResponse(v, validateInputCall(v, NewPatternObjects).result)

\* C22: the response to a request is the response it gets when it is the
\* only request, whatever requests were handled before it; the same
\* request twice in a row gets the same response; the response to a GET /
\* has no notice in it.
C22_NoInterference ==
    requests >= 1
    => /\ response = Alone(route, searchTerm)
       /\ validation = (IF route = "GET /" THEN NoValidation
                        ELSE validateInputCall(searchTerm, NewPatternObjects).result)
       /\ (requests >= 2 /\ previous.route = route /\ previous.searchTerm = searchTerm)
            => previous.response = response
       /\ route = "GET /"
            => /\ response = Send(HomePage)
               /\ ~Includes(response.body, InvalidNotice)

\* a GET / was answered right after a rejected POST /search, which had
\* left a lastIndex other than 0 behind
C22_Witness ==
    /\ requests >= 2
    /\ route = "GET /"
    /\ RejectedExchange(previous)
    /\ previous.validation.attackType = "xss"
    /\ \E n \in DOMAIN lastIndex.xss : lastIndex.xss[n] > 0
    /\ response.status = 200

\* ------------------------------------------------------------------------
\* C23
\* ------------------------------------------------------------------------

\* C23: the handler of POST /search sends nothing before validateInput has
\* returned, then takes exactly one of its two branches, and has sent
\* exactly one response when it is over: the rejection page and nothing
\* after it for a rejected input, the results page alone for an accepted
\* one. It never ends without a response.
C23_ExactlyOneResponse ==
    route = "POST /search"
    => /\ sent <= 1
       /\ pc \in {"search", "validated"} => sent = 0
       /\ pc = "validated"
            => /\ ENABLED SendRejection <=> ~validation.isValid
               /\ ENABLED SendResults <=> validation.isValid
       /\ pc # "aborted"
       /\ pc = "done"
            => /\ sent = 1
               /\ ~ENABLED SendRejection
               /\ ~ENABLED SendResults
               /\ response = (IF validation.isValid
                              THEN Send(ResultsPage(searchTerm))
                              ELSE Send(RejectionPage))

\* the handler is over for a rejected SQL injection, with one response sent
C23_Witness ==
    /\ Answered
    /\ searchTerm = AdminOrAttack
    /\ validation.attackType = "sql"
    /\ sent = 1
    /\ response = Send(RejectionPage)

\* ------------------------------------------------------------------------
\* C24
\* ------------------------------------------------------------------------

\* case patterns repeat with period MaskLen
MaskLen == 3

\* the lower-case letter of an upper-case one
LowerOf == [c \in Range(UpperLetters) |->
              LowerLetters[CHOOSE i \in 1..26 : UpperLetters[i] = c]]

\* the letter c in upper case (up) or in lower case
InCase(c, up) ==
    IF c \in DOMAIN UpperOf THEN (IF up THEN UpperOf[c] ELSE c)
    ELSE IF c \in DOMAIN LowerOf THEN (IF up THEN c ELSE LowerOf[c])
    ELSE c

\* s with the case of its letters set by the mask, which repeats along s
Recase(s, mask) ==
    [i \in 1..Len(s) |-> InCase(s[i], mask[((i - 1) % MaskLen) + 1])]

\* s with the case of the letter at position p changed
FlipAt(s, p) ==
    [i \in 1..Len(s) |-> IF i = p THEN InCase(s[i], s[i] \in DOMAIN UpperOf) ELSE s[i]]

\* strings that differ from s in the case of letters only
CaseVariants(s) ==
    {Recase(s, mask) : mask \in [1..MaskLen -> BOOLEAN]}
        \cup {FlipAt(s, p) : p \in 1..Len(s)}

\* C24: validateInput returns the same isValid and the same attackType for
\* a string and for every string that differs from it in the case of
\* letters only.
C24_CaseInvariant ==
    (calls >= 1 /\ IsString)
    => \A t \in CaseVariants(searchTerm.chars) :
         \E r \in {validateInput(Str(t))} :
            /\ r.threw = validation.threw
            /\ r.isValid = validation.isValid
            /\ r.attackType = validation.attackType

\* 'UNION select' was rejected as SQL, and so is it in another case
C24_Witness ==
    /\ calls >= 1
    /\ searchTerm = Str(<<"U", "N", "I", "O", "N", " ", "s", "e", "l", "e", "c", "t">>)
    /\ validation.attackType = "sql"
    /\ <<"U", "n", "i", "O", "n", " ", "S", "e", "l", "E", "c", "t">> \in CaseVariants(searchTerm.chars)
    /\ <<"U", "N", "I", "o", "N", " ", "s", "e", "l", "e", "c", "t">> \in CaseVariants(searchTerm.chars)
    /\ validateInput(Str(<<"U", "n", "i", "O", "n", " ", "S", "e", "l", "E", "c", "t">>)).attackType = "sql"

====
